---- MODULE Spec2Model ----
(***************************************************************************)
(* Model of the PWHL fantasy standings scripts: the single-team script     *)
(* (src/script.js) and the multi-team script with category-rank scoring    *)
(* (src/unnamed/part_000).                                                 *)
(*                                                                         *)
(* JavaScript numbers are modelled as exact rationals [n, d] in lowest     *)
(* terms (d > 0); JSON values are tagged records.  Strings that the code   *)
(* parses as numbers carry their characters, so that parseInt/parseFloat   *)
(* are computed and not assumed.                                           *)
(***************************************************************************)
EXTENDS Integers, Sequences, FiniteSets, TLC

VARIABLES
  pc,            \* control position of the running script
  teamEntries,   \* init: manifest.teams || []
  idx,           \* init: position of the for..of loop over teamEntries
  res,           \* init: outcome of the pending fetch of a team file
  teamJson,      \* the payload handed to computeTeamSummary
  overrideLabel, \* the label handed to computeTeamSummary
  summary,       \* the value computeTeamSummary returned last
  summaries,     \* the collection of team summaries
  cards,         \* content of #team-cards
  roster,        \* content of #roster-container
  scoreCalls     \* number of applyCategoryRankScoring invocations so far

vars == <<pc, teamEntries, idx, res, teamJson, overrideLabel, summary,
          summaries, cards, roster, scoreCalls>>

---------------------------------------------------------------------------
(* Bounds *)

MaxPlayers == 2   \* longest roster drawn for a single summarizer call
MaxTeams == 3     \* largest collection / manifest
MaxCalls == 2     \* scoring passes over one collection

---------------------------------------------------------------------------
(* JavaScript numbers as rationals *)

Abs(a) == IF a < 0 THEN -a ELSE a

RECURSIVE GCD(_, _)
GCD(a, b) == IF b = 0 THEN a ELSE GCD(b, a % b)

Rat(n, d) == LET g == GCD(Abs(n), d) IN [n |-> n \div g, d |-> d \div g]

Int2Num(i) == [n |-> i, d |-> 1]
Zero == Int2Num(0)

NumAdd(x, y) == Rat(x.n * y.d + y.n * x.d, x.d * y.d)
NumSub(x, y) == Rat(x.n * y.d - y.n * x.d, x.d * y.d)
NumMulInt(x, k) == Rat(x.n * k, x.d)
NumDivInt(x, k) == Rat(x.n, x.d * k)
NumLess(x, y) == x.n * y.d < y.n * x.d
\* truncation toward zero, as the integer a decimal rendering starts with
NumTrunc(x) == IF x.n < 0 THEN Int2Num(-((-x.n) \div x.d)) ELSE Int2Num(x.n \div x.d)

NaN == [nan |-> TRUE]

---------------------------------------------------------------------------
(* JSON values *)

JUndef == [t |-> "undefined"]
JNull == [t |-> "null"]
JBool(b) == [t |-> "boolean", v |-> b]
JNum(x) == [t |-> "number", v |-> x]
JInt(i) == JNum(Int2Num(i))
JStr(s) == [t |-> "string", v |-> s]       \* a name, never parsed
JText(cs) == [t |-> "string", c |-> cs]    \* a string given by its characters
JArr(s) == [t |-> "array", v |-> s]

IsText(x) == x.t = "string" /\ "c" \in DOMAIN x

\* ToBoolean
Truthy(x) ==
  CASE x.t = "undefined" -> FALSE
    [] x.t = "null" -> FALSE
    [] x.t = "boolean" -> x.v
    [] x.t = "number" -> x.v # Zero
    [] x.t = "string" -> IF IsText(x) THEN x.c # <<>> ELSE x.v # ""
    [] OTHER -> TRUE

Digits == <<"0", "1", "2", "3", "4", "5", "6", "7", "8", "9">>
IsDigit(c) == \E i \in 1..Len(Digits) : Digits[i] = c
DigitVal(c) == (CHOOSE i \in 1..Len(Digits) : Digits[i] = c) - 1

RECURSIVE SkipSpaces(_, _)
SkipSpaces(s, i) == IF i <= Len(s) /\ s[i] = " " THEN SkipSpaces(s, i + 1) ELSE i

\* the longest run of digits of s from position i: its value, its length, the next position
RECURSIVE ReadDigits(_, _, _, _)
ReadDigits(s, i, v, k) ==
  IF i <= Len(s) /\ IsDigit(s[i])
    THEN ReadDigits(s, i + 1, v * 10 + DigitVal(s[i]), k + 1)
    ELSE [v |-> v, k |-> k, next |-> i]

RECURSIVE Pow10(_)
Pow10(k) == IF k = 0 THEN 1 ELSE 10 * Pow10(k - 1)

\* position after an optional sign, and the sign
SignAt(s, i) == IF i <= Len(s) /\ s[i] = "-" THEN -1 ELSE 1
AfterSign(s, i) == IF i <= Len(s) /\ s[i] \in {"-", "+"} THEN i + 1 ELSE i

\* parseInt(string, 10)
ParseIntText(s) ==
  LET i == SkipSpaces(s, 1)
      j == AfterSign(s, i)
      r == ReadDigits(s, j, 0, 0)
  IN IF r.k = 0 THEN NaN ELSE Int2Num(SignAt(s, i) * r.v)

\* parseFloat(string): digits, optionally a point and digits
ParseFloatText(s) ==
  LET i == SkipSpaces(s, 1)
      j == AfterSign(s, i)
      ip == ReadDigits(s, j, 0, 0)
      hasPoint == ip.next <= Len(s) /\ s[ip.next] = "."
      fp == IF hasPoint THEN ReadDigits(s, ip.next + 1, 0, 0)
                        ELSE [v |-> 0, k |-> 0, next |-> ip.next]
  IN IF ip.k = 0 /\ fp.k = 0
       THEN NaN
       ELSE Rat(SignAt(s, i) * (ip.v * Pow10(fp.k) + fp.v), Pow10(fp.k))

\* parseInt(value, 10): a number is rendered in decimal and read back
parseInt(value) ==
  CASE value.t = "number" -> NumTrunc(value.v)
    [] value.t = "string" -> IF IsText(value) THEN ParseIntText(value.c) ELSE NaN
    [] OTHER -> NaN

parseFloat(value) ==
  CASE value.t = "number" -> value.v
    [] value.t = "string" -> IF IsText(value) THEN ParseFloatText(value.c) ELSE NaN
    [] OTHER -> NaN

toInt(value) == LET n == parseInt(value) IN IF n = NaN THEN Zero ELSE n

toFloat(value) == LET n == parseFloat(value) IN IF n = NaN THEN Zero ELSE n

---------------------------------------------------------------------------
(* Categories used for scoring and display *)

CATEGORIES == <<
  [key |-> "goals",   field |-> "goals",           higherIsBetter |-> TRUE],
  [key |-> "assists", field |-> "assists",         higherIsBetter |-> TRUE],
  [key |-> "ppPoints", field |-> "powerPlayPoints", higherIsBetter |-> TRUE],
  [key |-> "hits",    field |-> "hits",            higherIsBetter |-> TRUE],
  [key |-> "shots",   field |-> "shots",           higherIsBetter |-> TRUE],
  [key |-> "pim",     field |-> "penaltyMinutes",  higherIsBetter |-> TRUE],
  [key |-> "savePct", field |-> "avgSavePct",      higherIsBetter |-> TRUE],
  [key |-> "gaa",     field |-> "avgGaa",          higherIsBetter |-> FALSE] >>

CategoryKeys == {CATEGORIES[c].key : c \in 1..Len(CATEGORIES)}

---------------------------------------------------------------------------
(* Aggregate stats for a single team *)

\* a || b
OrElse(a, b) == IF Truthy(a) THEN a ELSE b

TypeError == [threw |-> "TypeError"]
IsThrow(r) == r = TypeError

\* teamJson.players || []
PlayersOf(json) == OrElse(json.players, JArr(<<>>)).v

\* mutant: the skater filter forgets the missing flag
IsSkater_ignoresMissing(p) == p.stats_position_group = JStr("skater")

IsSkater(p) == p.stats_position_group = JStr("skater") /\ ~Truthy(p.missing)

\* mutant: the goalie filter forgets the missing flag
IsGoalie_ignoresMissing(p) == p.stats_position_group = JStr("goalie")

IsGoalie(p) == p.stats_position_group = JStr("goalie") /\ ~Truthy(p.missing)

\* reading a property of null or undefined throws
ReadThrows(json) ==
  \/ json \in {JNull, JUndef}
  \/ \E i \in 1..Len(PlayersOf(json)) : PlayersOf(json)[i] \in {JNull, JUndef}

\* players.forEach((p) => { acc += toInt(p[f]) }), from acc = 0
RECURSIVE SumInts(_, _)
SumInts(ps, f) ==
  IF ps = <<>> THEN Zero
  ELSE NumAdd(SumInts(SubSeq(ps, 1, Len(ps) - 1), f), toInt(ps[Len(ps)][f]))

\* goalies.reduce((sum, g) => sum + toFloat(g[f]), 0)
RECURSIVE SumFloats(_, _)
SumFloats(ps, f) ==
  IF ps = <<>> THEN Zero
  ELSE NumAdd(SumFloats(SubSeq(ps, 1, Len(ps) - 1), f), toFloat(ps[Len(ps)][f]))

\* if (goalies.length > 0) avg = total / goalies.length, else 0
GoalieAverage(goalies, f) ==
  IF Len(goalies) > 0 THEN NumDivInt(SumFloats(goalies, f), Len(goalies)) ELSE Zero

\* mutant: the payload's own name wins over the label
ResolveTeamName_payloadFirst(label, json) ==
  OrElse(json.team_name, OrElse(label, JStr("Unnamed Team")))

\* overrideLabel || teamJson.team_name || "Unnamed Team"
ResolveTeamName(label, json) ==
  OrElse(label, OrElse(json.team_name, JStr("Unnamed Team")))

\* computeTeamSummary of the multi-team script
computeTeamSummary(json, label) ==
  IF ReadThrows(json) THEN TypeError
  ELSE
    LET players == PlayersOf(json)
        skaters == SelectSeq(players, IsSkater)
        goalies == SelectSeq(players, IsGoalie)
        powerPlayGoals == SumInts(skaters, "power_play_goals")
        powerPlayAssists == SumInts(skaters, "power_play_assists")
    IN [teamName |-> ResolveTeamName(label, json),
        seasonId |-> json.season_id,
        players |-> players,
        skaters |-> skaters,
        goalies |-> goalies,
        totals |-> [goals |-> SumInts(skaters, "goals"),
                    assists |-> SumInts(skaters, "assists"),
                    powerPlayPoints |-> NumAdd(powerPlayGoals, powerPlayAssists),
                    hits |-> SumInts(skaters, "hits"),
                    shots |-> SumInts(skaters, "shots"),
                    penaltyMinutes |-> SumInts(skaters, "penalty_minutes"),
                    avgSavePct |-> GoalieAverage(goalies, "save_percentage"),
                    avgGaa |-> GoalieAverage(goalies, "goals_against_average"),
                    fantasyScore |-> Zero],
        categoryPoints |-> <<>>,
        categoryRanks |-> <<>>]

\* computeTeamSummary of the single-team script: no label, a placeholder score
computeTeamSummary_single(json) ==
  IF ReadThrows(json) THEN TypeError
  ELSE
    LET players == PlayersOf(json)
        skaters == SelectSeq(players, IsSkater)
        goalies == SelectSeq(players, IsGoalie)
        goals == SumInts(skaters, "goals")
        assists == SumInts(skaters, "assists")
        powerPlayGoals == SumInts(skaters, "power_play_goals")
        powerPlayAssists == SumInts(skaters, "power_play_assists")
        hits == SumInts(skaters, "hits")
        shots == SumInts(skaters, "shots")
        penaltyMinutes == SumInts(skaters, "penalty_minutes")
        avgSavePct == GoalieAverage(goalies, "save_percentage")
        avgGaa == GoalieAverage(goalies, "goals_against_average")
        powerPlayPoints == NumAdd(powerPlayGoals, powerPlayAssists)
        fantasyScore ==
          NumSub(NumAdd(NumAdd(NumAdd(NumAdd(NumAdd(NumAdd(goals, assists),
                 powerPlayPoints), hits), shots), penaltyMinutes),
                 NumMulInt(avgSavePct, 10)), NumMulInt(avgGaa, 5))
    IN [teamName |-> OrElse(json.team_name, JStr("Unnamed Team")),
        seasonId |-> json.season_id,
        players |-> players,
        skaters |-> skaters,
        goalies |-> goalies,
        totals |-> [goals |-> goals,
                    assists |-> assists,
                    powerPlayPoints |-> powerPlayPoints,
                    powerPlayGoals |-> powerPlayGoals,
                    powerPlayAssists |-> powerPlayAssists,
                    hits |-> hits,
                    shots |-> shots,
                    penaltyMinutes |-> penaltyMinutes,
                    avgSavePct |-> avgSavePct,
                    avgGaa |-> avgGaa,
                    fantasyScore |-> fantasyScore]]

---------------------------------------------------------------------------
(* Category-rank scoring.  The summaries of a collection are distinct      *)
(* objects (init builds each with its own computeTeamSummary call); a team *)
(* is identified by its position in the collection.  Totals are finite     *)
(* numbers, so the comparator never yields NaN.                            *)

\* an array given element by element, as the sequence of its elements
ArrayOf(f) == SubSeq(f, 1, Len(f))

\* mutant: the reset clears the maps but keeps the previous score
ResetScores_keepScore(teams) ==
  ArrayOf([i \in 1..Len(teams) |->
     [categoryPoints |-> <<>>, categoryRanks |-> <<>>]
       @@ [teams[i] EXCEPT !.totals = @ @@ ("fantasyScore" :> Zero)]])

\* the reset loop: categoryPoints = {}, categoryRanks = {}, fantasyScore = 0
ResetScores(teams) ==
  ArrayOf([i \in 1..Len(teams) |->
     [categoryPoints |-> <<>>, categoryRanks |-> <<>>]
       @@ [teams[i] EXCEPT !.totals = ("fantasyScore" :> Zero) @@ @]])

\* team.totals[field] ?? 0
TotalOrZero(team, field) ==
  IF field \in DOMAIN team.totals THEN team.totals[field] ELSE Zero

\* mutant: the comparator ignores higherIsBetter and always sorts high to low
CompareTeams_alwaysDescending(cat, a, b) ==
  NumSub(TotalOrZero(b, cat.field), TotalOrZero(a, cat.field))

\* the sort comparator: negative when a goes before b
CompareTeams(cat, a, b) ==
  LET av == TotalOrZero(a, cat.field)
      bv == TotalOrZero(b, cat.field)
  IN IF cat.higherIsBetter THEN NumSub(bv, av) ELSE NumSub(av, bv)

\* mutant: an unstable sort, x enters before the members it ties with
InsertStable_beforeTies(teams, cat, run, x) ==
  LET keep == {j \in 1..Len(run) :
                 NumLess(CompareTeams(cat, teams[run[j]], teams[x]), Zero)}
      at == IF keep = {} THEN 0 ELSE CHOOSE j \in keep : \A k \in keep : k <= j
  IN SubSeq(run, 1, at) \o <<x>> \o SubSeq(run, at + 1, Len(run))

\* x enters a sorted run after the last member that does not go after it
InsertStable(teams, cat, run, x) ==
  LET keep == {j \in 1..Len(run) :
                 ~NumLess(Zero, CompareTeams(cat, teams[run[j]], teams[x]))}
      at == IF keep = {} THEN 0 ELSE CHOOSE j \in keep : \A k \in keep : k <= j
  IN SubSeq(run, 1, at) \o <<x>> \o SubSeq(run, at + 1, Len(run))

\* [...summaries].sort(comparator), as positions of the collection; the sort is stable
RECURSIVE SortedOrder(_, _, _)
SortedOrder(teams, cat, n) ==
  IF n = 0 THEN <<>>
  ELSE InsertStable(teams, cat, SortedOrder(teams, cat, n - 1), n)

\* mutant: tied teams share the rank of the first of them
AssignRanks_sharedRanks(teams, cat, sorted) ==
  LET nTeams == Len(teams)
      better(i) == {j \in 1..nTeams :
                      NumLess(CompareTeams(cat, teams[j], teams[i]), Zero)}
  IN ArrayOf([i \in 1..nTeams |->
        LET rank == Cardinality(better(i)) + 1
            points == nTeams - Cardinality(better(i))
        IN [teams[i] EXCEPT
              !.categoryRanks = (cat.key :> rank) @@ @,
              !.categoryPoints = (cat.key :> points) @@ @,
              !.totals.fantasyScore = NumAdd(@, Int2Num(points))]])

\* mutant: points count from nTeams - 1 down to 0
AssignRanks_pointsFromZero(teams, cat, sorted) ==
  LET nTeams == Len(teams)
      idxOf(i) == (CHOOSE k \in 1..Len(sorted) : sorted[k] = i) - 1
  IN ArrayOf([i \in 1..nTeams |->
        LET rank == idxOf(i) + 1
            points == nTeams - idxOf(i) - 1
        IN [teams[i] EXCEPT
              !.categoryRanks = (cat.key :> rank) @@ @,
              !.categoryPoints = (cat.key :> points) @@ @,
              !.totals.fantasyScore = NumAdd(@, Int2Num(points))]])

\* sorted.forEach((team, idx) => ...): rank idx + 1, points nTeams - idx
AssignRanks(teams, cat, sorted) ==
  LET nTeams == Len(teams)
      idxOf(i) == (CHOOSE k \in 1..Len(sorted) : sorted[k] = i) - 1
  IN ArrayOf([i \in 1..nTeams |->
        LET rank == idxOf(i) + 1
            points == nTeams - idxOf(i)
        IN [teams[i] EXCEPT
              !.categoryRanks = (cat.key :> rank) @@ @,
              !.categoryPoints = (cat.key :> points) @@ @,
              !.totals.fantasyScore = NumAdd(@, Int2Num(points))]])

\* CATEGORIES.forEach over the first c categories, after the reset
RECURSIVE ScoreCategories(_, _)
ScoreCategories(teams, c) ==
  IF c = 0 THEN ResetScores(teams)
  ELSE LET prev == ScoreCategories(teams, c - 1)
           cat == CATEGORIES[c]
       IN AssignRanks(prev, cat, SortedOrder(prev, cat, Len(prev)))

\* mutant: the last category is left out
applyCategoryRankScoring_skipLast(teams) == ScoreCategories(teams, Len(CATEGORIES) - 1)

applyCategoryRankScoring(teams) == ScoreCategories(teams, Len(CATEGORIES))

---------------------------------------------------------------------------
(* Inputs *)

\* two stat lines of a player record, as the upstream JSON may carry them
StatLineA ==
  [goals |-> JInt(2), assists |-> JInt(1),
   power_play_goals |-> JInt(1), power_play_assists |-> JUndef,
   hits |-> JText(<<"3">>), shots |-> JInt(4),
   penalty_minutes |-> JText(<<" ", "2", "m">>),
   save_percentage |-> JNum(Rat(9, 10)),
   goals_against_average |-> JNum(Rat(5, 2))]

StatLineB ==
  [goals |-> JText(<<"1", "x">>), assists |-> JInt(3),
   power_play_goals |-> JNull, power_play_assists |-> JInt(2),
   hits |-> JInt(0), shots |-> JText(<<"n", "a">>),
   penalty_minutes |-> JNum(Rat(7, 2)),
   save_percentage |-> JText(<<"0", ".", "9", "2">>),
   goals_against_average |-> JText(<<"2">>)]

StatLines == {StatLineA, StatLineB}
PositionGroups == {JStr("skater"), JStr("goalie"), JUndef}
MissingFlags == {JUndef, JBool(FALSE), JBool(TRUE)}

Player(group, missing, line) ==
  [stats_position_group |-> group, missing |-> missing] @@ line

PlayerPool ==
  {Player(g, m, l) : g \in PositionGroups, m \in MissingFlags, l \in StatLines}
    \cup {JNull}

Rosters(pool, maxLen) == UNION {[1..k -> pool] : k \in 0..maxLen}

TeamNames == {JUndef, JStr(""), JStr("Payload Name")}
Labels == {JUndef, JStr(""), JStr("Label")}
SeasonId == JInt(5)

Payload(name, players) ==
  [team_name |-> name, season_id |-> SeasonId, players |-> players]

Payloads ==
  {Payload(n, p) : n \in TeamNames,
                   p \in {JUndef} \cup {JArr(r) : r \in Rosters(PlayerPool, MaxPlayers)}}
    \cup {JNull}

---------------------------------------------------------------------------
(* The summarizer called once on a drawn payload *)

InitSummarize ==
  /\ pc = "call"
  /\ teamJson \in Payloads
  /\ overrideLabel \in Labels
  /\ summary = JUndef
  /\ teamEntries = <<>>
  /\ idx = 0
  /\ res = JUndef
  /\ summaries = <<>>
  /\ cards = <<>>
  /\ roster = JUndef
  /\ scoreCalls = 0

Summarize ==
  /\ pc = "call"
  /\ LET r == computeTeamSummary(teamJson, overrideLabel)
     IN /\ pc' = IF IsThrow(r) THEN "threw" ELSE "returned"
        /\ summary' = r
  /\ UNCHANGED <<teamEntries, idx, res, teamJson, overrideLabel, summaries,
                 cards, roster, scoreCalls>>

SummarizeSingle ==
  /\ pc = "call"
  /\ LET r == computeTeamSummary_single(teamJson)
     IN /\ pc' = IF IsThrow(r) THEN "threwSingle" ELSE "returnedSingle"
        /\ summary' = r
  /\ UNCHANGED <<teamEntries, idx, res, teamJson, overrideLabel, summaries,
                 cards, roster, scoreCalls>>

NextSummarize == Summarize \/ SummarizeSingle

SpecSummarize == InitSummarize /\ [][NextSummarize]_vars

---------------------------------------------------------------------------
(* The scorer called on a drawn collection, possibly again *)

SkA == Player(JStr("skater"), JBool(FALSE), StatLineA)
SkB == Player(JStr("skater"), JUndef, StatLineB)
GoA == Player(JStr("goalie"), JBool(FALSE), StatLineA)
GoB == Player(JStr("goalie"), JUndef, StatLineB)
SkMissing == Player(JStr("skater"), JBool(TRUE), StatLineA)
GoMissing == Player(JStr("goalie"), JBool(TRUE), StatLineB)

ScorePayloads ==
  {Payload(JStr("Payload Name"), JArr(r)) :
     r \in {<<>>, <<SkA, GoA>>, <<SkB, GoB>>, <<SkA, SkB, GoMissing>>,
            <<GoA, GoB, SkMissing>>}}

\* a summary whose totals lack the goalie averages
WithoutAverages(s) ==
  [s EXCEPT !.totals = [f \in DOMAIN s.totals \ {"avgSavePct", "avgGaa"} |-> s.totals[f]]]

ScoreInputs ==
  {computeTeamSummary(p, JUndef) : p \in ScorePayloads}
    \cup {computeTeamSummary_single(Payload(JUndef, JArr(<<SkA, GoA>>)))}
    \cup {WithoutAverages(computeTeamSummary(Payload(JUndef, JArr(<<SkB, GoB>>)), JStr("Label")))}

InitScore ==
  /\ pc = "ready"
  /\ summaries \in UNION {[1..n -> ScoreInputs] : n \in 1..MaxTeams}
  /\ scoreCalls = 0
  /\ teamEntries = <<>>
  /\ idx = 0
  /\ res = JUndef
  /\ teamJson = JUndef
  /\ overrideLabel = JUndef
  /\ summary = JUndef
  /\ cards = <<>>
  /\ roster = JUndef

Score ==
  /\ pc \in {"ready", "scored"}
  /\ scoreCalls < MaxCalls
  /\ summaries' = applyCategoryRankScoring(summaries)
  /\ scoreCalls' = scoreCalls + 1
  /\ pc' = "scored"
  /\ UNCHANGED <<teamEntries, idx, res, teamJson, overrideLabel, summary, cards, roster>>

NextScore == Score

SpecScore == InitScore /\ [][NextScore]_vars

---------------------------------------------------------------------------
(* Bootstrap of the multi-team script: init().  Each await is a step; the  *)
(* code after the loop runs without suspension and is one step.  The page  *)
(* holds the #team-cards and #roster-container elements.                   *)

ManifestEntries == {[label |-> JUndef], [label |-> JStr("Label")], JNull}
Manifests == UNION {[1..n -> ManifestEntries] : n \in 0..MaxTeams}

DriverPayloads ==
  {Payload(JStr("Payload Name"), JUndef),
   Payload(JUndef, JArr(<<SkA, GoA>>)),
   Payload(JStr("Payload Name"), JArr(<<SkB, GoB>>)),
   Payload(JUndef, JArr(<<SkA, SkB, GoMissing>>)),
   Payload(JUndef, JArr(<<SkA, JNull>>))}

ErrorNote == [error |-> "Failed to load teams. Check teams_index.json and file paths."]

\* renderTeamCard(summary, overallRank, nTeams): the card appended to #team-cards
TeamCard(s, overallRank, nTeams) ==
  [teamName |-> s.teamName, overallRank |-> overallRank, nTeams |-> nTeams,
   fantasyScore |-> s.totals.fantasyScore, categoryRanks |-> s.categoryRanks,
   skaters |-> Len(s.skaters), goalies |-> Len(s.goalies)]

\* summaries.sort((a, b) => b.totals.fantasyScore - a.totals.fantasyScore)
ByScore == [key |-> "fantasyScore", field |-> "fantasyScore", higherIsBetter |-> TRUE]
SortByScore(teams) ==
  LET order == SortedOrder(teams, ByScore, Len(teams))
  IN ArrayOf([k \in 1..Len(teams) |-> teams[order[k]]])

Init ==
  /\ pc = "manifest"
  /\ teamEntries = <<>>
  /\ idx = 0
  /\ res = JUndef
  /\ teamJson = JUndef
  /\ overrideLabel = JUndef
  /\ summary = JUndef
  /\ summaries = <<>>
  /\ cards = <<>>
  /\ roster = JUndef
  /\ scoreCalls = 0

\* the outer catch: the error note replaces the cards
Fail ==
  /\ pc' = "failed"
  /\ cards' = <<ErrorNote>>

\* the manifest fetch rejects, answers not ok, or its body is no manifest object
ManifestFails ==
  /\ pc = "manifest"
  /\ Fail
  /\ UNCHANGED <<teamEntries, idx, res, teamJson, overrideLabel, summary,
                 summaries, roster, scoreCalls>>

\* teamEntries = manifest.teams || []
ManifestLoads ==
  /\ pc = "manifest"
  /\ \E m \in Manifests : teamEntries' = m
  /\ idx' = 1
  /\ pc' = "entry"
  /\ UNCHANGED <<res, teamJson, overrideLabel, summary, summaries, cards,
                 roster, scoreCalls>>

\* entry.url on a null entry throws outside the inner try
EntryThrows ==
  /\ pc = "entry"
  /\ idx <= Len(teamEntries)
  /\ teamEntries[idx] = JNull
  /\ Fail
  /\ UNCHANGED <<teamEntries, idx, res, teamJson, overrideLabel, summary,
                 summaries, roster, scoreCalls>>

\* fetch(filePath) rejects (inner catch) or answers not ok (continue)
TeamFetchFails ==
  /\ pc = "entry"
  /\ idx <= Len(teamEntries)
  /\ teamEntries[idx] # JNull
  /\ idx' = idx + 1
  /\ UNCHANGED <<pc, teamEntries, res, teamJson, overrideLabel, summary,
                 summaries, cards, roster, scoreCalls>>

\* fetch(filePath) answers ok
TeamFetched ==
  /\ pc = "entry"
  /\ idx <= Len(teamEntries)
  /\ teamEntries[idx] # JNull
  /\ res' = [ok |-> TRUE]
  /\ pc' = "json"
  /\ UNCHANGED <<teamEntries, idx, teamJson, overrideLabel, summary,
                 summaries, cards, roster, scoreCalls>>

\* res.json() rejects: the inner catch logs and the loop goes on
TeamJsonFails ==
  /\ pc = "json"
  /\ res' = JUndef
  /\ idx' = idx + 1
  /\ pc' = "entry"
  /\ UNCHANGED <<teamEntries, teamJson, overrideLabel, summary, summaries,
                 cards, roster, scoreCalls>>

\* res.json() resolves: computeTeamSummary(teamJson, entry.label), then push,
\* or the inner catch when the summarizer throws
TeamSummarized ==
  /\ pc = "json"
  /\ \E json \in DriverPayloads :
       LET r == computeTeamSummary(json, teamEntries[idx].label)
       IN /\ teamJson' = json
          /\ overrideLabel' = teamEntries[idx].label
          /\ summary' = r
          /\ summaries' = IF IsThrow(r) THEN summaries ELSE Append(summaries, r)
  /\ res' = JUndef
  /\ idx' = idx + 1
  /\ pc' = "entry"
  /\ UNCHANGED <<teamEntries, cards, roster, scoreCalls>>

\* after the loop: no summary could be loaded
FinishEmpty ==
  /\ pc = "entry"
  /\ idx > Len(teamEntries)
  /\ Len(summaries) = 0
  /\ Fail
  /\ UNCHANGED <<teamEntries, idx, res, teamJson, overrideLabel, summary,
                 summaries, roster, scoreCalls>>

\* mutant: scoring and rendering do not wait for the end of the loop
Finish_beforeLoopEnds ==
  /\ pc = "entry"
  /\ Len(summaries) # 0
  /\ LET sorted == SortByScore(applyCategoryRankScoring(summaries))
         nTeams == Len(sorted)
     IN /\ summaries' = sorted
        /\ cards' = cards \o ArrayOf([k \in 1..nTeams |-> TeamCard(sorted[k], k, nTeams)])
        /\ roster' = [teamName |-> sorted[1].teamName, players |-> sorted[1].players]
  /\ scoreCalls' = scoreCalls + 1
  /\ pc' = "done"
  /\ UNCHANGED <<teamEntries, idx, res, teamJson, overrideLabel, summary>>

\* after the loop: score, sort by score, render the cards and the top roster
Finish ==
  /\ pc = "entry"
  /\ idx > Len(teamEntries)
  /\ Len(summaries) # 0
  /\ LET sorted == SortByScore(applyCategoryRankScoring(summaries))
         nTeams == Len(sorted)
     IN /\ summaries' = sorted
        /\ cards' = cards \o ArrayOf([k \in 1..nTeams |-> TeamCard(sorted[k], k, nTeams)])
        /\ roster' = [teamName |-> sorted[1].teamName, players |-> sorted[1].players]
  /\ scoreCalls' = scoreCalls + 1
  /\ pc' = "done"
  /\ UNCHANGED <<teamEntries, idx, res, teamJson, overrideLabel, summary>>

Next ==
  \/ ManifestFails
  \/ ManifestLoads
  \/ EntryThrows
  \/ TeamFetchFails
  \/ TeamFetched
  \/ TeamJsonFails
  \/ TeamSummarized
  \/ FinishEmpty
  \/ Finish

Spec == Init /\ [][Next]_vars

---------------------------------------------------------------------------
(* Properties of the scorer, checked under SpecScore *)

NTeams == Len(summaries)
TeamIds == 1..NTeams
Scored == pc = "scored"

\* the raw value the scorer reads for a team in a category, absent counting as 0
RawValue(i, cat) ==
  IF cat.field \in DOMAIN summaries[i].totals THEN summaries[i].totals[cat.field] ELSE Zero

RankIn(i, cat) == summaries[i].categoryRanks[cat.key]
PointsIn(i, cat) == summaries[i].categoryPoints[cat.key]
CategorySet == {CATEGORIES[c] : c \in 1..Len(CATEGORIES)}
Triangle(n) == (n * (n + 1)) \div 2

\* a is strictly better than b in the category's direction
StrictlyBetter(a, b, cat) == IF cat.higherIsBetter THEN NumLess(b, a) ELSE NumLess(a, b)

\* C1: after a scoring pass over N teams, in every category the ranks stored
\* across the teams are exactly 1..N, each held by exactly one team.
C1_RankTotality ==
  Scored =>
    \A cat \in CategorySet :
      /\ \A i \in TeamIds : cat.key \in DOMAIN summaries[i].categoryRanks
      /\ {RankIn(i, cat) : i \in TeamIds} = 1..NTeams
      /\ \A i, j \in TeamIds : i # j => RankIn(i, cat) # RankIn(j, cat)

\* C1 witness: a scored collection of at least three teams, two of them tied on goals
C1_Witness ==
  /\ Scored
  /\ NTeams >= 3
  /\ \E i, j \in TeamIds : i # j /\ summaries[i].totals.goals = summaries[j].totals.goals

\* C2: after a scoring pass over N teams, the points of every category add up
\* to N(N+1)/2 and the fantasy scores add up to (number of categories) * N(N+1)/2.
C2_PointsConservation ==
  Scored =>
    LET PointsSum(cat) ==
          LET S[i \in 0..NTeams] == IF i = 0 THEN 0 ELSE S[i - 1] + PointsIn(i, cat)
          IN S[NTeams]
        ScoreSum ==
          LET S[i \in 0..NTeams] ==
                IF i = 0 THEN Zero ELSE NumAdd(S[i - 1], summaries[i].totals.fantasyScore)
          IN S[NTeams]
    IN /\ \A cat \in CategorySet : PointsSum(cat) = Triangle(NTeams)
       /\ ScoreSum = Int2Num(Len(CATEGORIES) * Triangle(NTeams))

\* C2 witness: a scored collection of at least two teams with different scores
C2_Witness ==
  /\ Scored
  /\ NTeams >= 2
  /\ \E i, j \in TeamIds : summaries[i].totals.fantasyScore # summaries[j].totals.fantasyScore

\* C3: in a lower-is-better category (gaa) the team with the smallest raw value
\* has rank 1, in a higher-is-better category the team with the largest; the
\* holder of rank 1 is never strictly beaten on the raw value.
C3_DirectionCorrectness ==
  Scored =>
    \A cat \in CategorySet : \A i \in TeamIds :
      /\ (\A j \in TeamIds \ {i} : StrictlyBetter(RawValue(i, cat), RawValue(j, cat), cat))
           => RankIn(i, cat) = 1
      /\ RankIn(i, cat) = 1
           => \A j \in TeamIds : ~StrictlyBetter(RawValue(j, cat), RawValue(i, cat), cat)

\* C3 witness: three teams whose goalie averages are pairwise different, the
\* last in input order holding the smallest GAA and rank 1 there, while the
\* rank 1 for save percentage goes to another team
C3_Witness ==
  /\ Scored
  /\ NTeams = 3
  /\ "avgGaa" \in DOMAIN summaries[1].totals
  /\ "avgGaa" \in DOMAIN summaries[2].totals
  /\ "avgGaa" \in DOMAIN summaries[3].totals
  /\ NumLess(summaries[3].totals.avgGaa, summaries[1].totals.avgGaa)
  /\ NumLess(summaries[1].totals.avgGaa, summaries[2].totals.avgGaa)
  /\ summaries[3].categoryRanks.gaa = 1
  /\ summaries[3].categoryRanks.savePct # 1

\* C4: of two teams with equal raw values in a category, the one earlier in the
\* input collection gets the smaller rank; tied teams never share a rank.
C4_TiesByInputOrder ==
  Scored =>
    \A cat \in CategorySet : \A i, j \in TeamIds :
      (i < j /\ RawValue(i, cat) = RawValue(j, cat)) => RankIn(i, cat) < RankIn(j, cat)

\* C4 witness: goals of the shape [g, g, less] in input order, with ranks
\* [1, 2, 3] and points [3, 2, 1]
C4_Witness ==
  /\ Scored
  /\ NTeams = 3
  /\ summaries[1].totals.goals = summaries[2].totals.goals
  /\ NumLess(summaries[3].totals.goals, summaries[1].totals.goals)
  /\ <<summaries[1].categoryRanks.goals, summaries[2].categoryRanks.goals,
       summaries[3].categoryRanks.goals>> = <<1, 2, 3>>
  /\ <<summaries[1].categoryPoints.goals, summaries[2].categoryPoints.goals,
       summaries[3].categoryPoints.goals>> = <<3, 2, 1>>

ScoringFields ==
  [i \in TeamIds |-> [categoryRanks |-> summaries[i].categoryRanks,
                      categoryPoints |-> summaries[i].categoryPoints,
                      fantasyScore |-> summaries[i].totals.fantasyScore]]

\* C5: a further scoring pass over a collection that has been scored, its raw
\* totals untouched, leaves every team's ranks, points and fantasy score as
\* they were after the first pass.
C5_Idempotence ==
  [][(scoreCalls >= 1 /\ scoreCalls' = scoreCalls + 1) => ScoringFields' = ScoringFields]_vars

\* C5 witness: a collection of at least two teams scored more than once
C5_Witness ==
  /\ Scored
  /\ scoreCalls >= 2
  /\ NTeams >= 2

\* C6: after a scoring pass every team has one rank and one points entry per
\* category, points = N - rank + 1, a fantasy score equal to the sum of its
\* points, lying between the number of categories and that number times N.
C6_ScorePostcondition ==
  Scored =>
    \A i \in TeamIds :
      LET total ==
            LET S[c \in 0..Len(CATEGORIES)] ==
                  IF c = 0 THEN 0 ELSE S[c - 1] + PointsIn(i, CATEGORIES[c])
            IN S[Len(CATEGORIES)]
      IN /\ DOMAIN summaries[i].categoryRanks = CategoryKeys
         /\ DOMAIN summaries[i].categoryPoints = CategoryKeys
         /\ \A cat \in CategorySet : PointsIn(i, cat) = NTeams - RankIn(i, cat) + 1
         /\ summaries[i].totals.fantasyScore = Int2Num(total)
         /\ Len(CATEGORIES) <= total
         /\ total <= Len(CATEGORIES) * NTeams

\* C6 witness: a scored collection where some team is neither best nor worst everywhere
C6_Witness ==
  /\ Scored
  /\ NTeams >= 2
  /\ \E i \in TeamIds :
       /\ NumLess(Int2Num(Len(CATEGORIES)), summaries[i].totals.fantasyScore)
       /\ NumLess(summaries[i].totals.fantasyScore, Int2Num(Len(CATEGORIES) * NTeams))

---------------------------------------------------------------------------
(* Properties of the summarizer, checked under SpecSummarize *)

Returned == pc \in {"returned", "returnedSingle"}

\* the players list of the payload as given, an absent list being empty
GivenPlayers(json) == IF json.players.t = "array" THEN json.players.v ELSE <<>>

\* a flag counts as set when it is true
Flagged(p) == p.missing = JBool(TRUE)
CountedSkaters(ps) ==
  {i \in 1..Len(ps) : ps[i].stats_position_group = JStr("skater") /\ ~Flagged(ps[i])}
CountedGoalies(ps) ==
  {i \in 1..Len(ps) : ps[i].stats_position_group = JStr("goalie") /\ ~Flagged(ps[i])}

\* the sum of a stat, read as an integer, over the players at the positions in ids
IntSumOver(ps, ids, f) ==
  LET S[i \in 0..Len(ps)] ==
        IF i = 0 THEN Zero
        ELSE IF i \in ids THEN NumAdd(S[i - 1], toInt(ps[i][f])) ELSE S[i - 1]
  IN S[Len(ps)]

FloatSumOver(ps, ids, f) ==
  LET S[i \in 0..Len(ps)] ==
        IF i = 0 THEN Zero
        ELSE IF i \in ids THEN NumAdd(S[i - 1], toFloat(ps[i][f])) ELSE S[i - 1]
  IN S[Len(ps)]

MapOrEmpty(s, f) == IF f \in DOMAIN s THEN s[f] ELSE <<>>

\* C7 as claimed: every summary computeTeamSummary returns, in either script,
\* has empty per-category ranks and points and a fantasy score of 0.
C7_SummarizerSetsNoScore ==
  Returned =>
    /\ MapOrEmpty(summary, "categoryRanks") = <<>>
    /\ MapOrEmpty(summary, "categoryPoints") = <<>>
    /\ summary.totals.fantasyScore = Zero

\* C8: the totals are the sums over exactly the players of position group
\* skater that are not flagged missing, powerPlayPoints being the sum of
\* power-play goals plus the sum of power-play assists; the goalie averages are
\* taken over exactly the goalies not flagged missing; the players list of
\* the summary is the full input list.
C8_TotalsOverCountedPlayers ==
  Returned =>
    LET ps == GivenPlayers(teamJson)
        sk == CountedSkaters(ps)
        go == CountedGoalies(ps)
        t == summary.totals
    IN /\ t.goals = IntSumOver(ps, sk, "goals")
       /\ t.assists = IntSumOver(ps, sk, "assists")
       /\ t.hits = IntSumOver(ps, sk, "hits")
       /\ t.shots = IntSumOver(ps, sk, "shots")
       /\ t.penaltyMinutes = IntSumOver(ps, sk, "penalty_minutes")
       /\ t.powerPlayPoints = NumAdd(IntSumOver(ps, sk, "power_play_goals"),
                                     IntSumOver(ps, sk, "power_play_assists"))
       /\ NumMulInt(t.avgSavePct, Cardinality(go)) = FloatSumOver(ps, go, "save_percentage")
       /\ NumMulInt(t.avgGaa, Cardinality(go)) = FloatSumOver(ps, go, "goals_against_average")
       /\ go = {} => (t.avgSavePct = Zero /\ t.avgGaa = Zero)
       /\ summary.players = ps
       /\ Len(summary.skaters) = Cardinality(sk)
       /\ Len(summary.goalies) = Cardinality(go)

\* C8 witness: a roster of a counted skater and a skater flagged missing whose
\* stats are not zero, summarized with the totals of the counted one alone
C8_Witness ==
  /\ pc = "returned"
  /\ Len(summary.players) = 2
  /\ summary.players[1].stats_position_group = JStr("skater")
  /\ summary.players[2].stats_position_group = JStr("skater")
  /\ ~Flagged(summary.players[1])
  /\ Flagged(summary.players[2])
  /\ toInt(summary.players[2].goals) # Zero
  /\ summary.totals.goals = toInt(summary.players[1].goals)

\* a name or label is supplied when it is a non-empty string
Supplied(x) == x.t = "string" /\ x.v # ""

\* C9: the team name is the override label when one is supplied, even if the
\* payload has a team_name, otherwise the payload's team_name when present,
\* otherwise "Unnamed Team"; the single-team script takes no label.
C9_TeamNameResolution ==
  LET Expected(label) ==
        IF Supplied(label) THEN label
        ELSE IF Supplied(teamJson.team_name) THEN teamJson.team_name
        ELSE JStr("Unnamed Team")
  IN /\ pc = "returned" => summary.teamName = Expected(overrideLabel)
     /\ pc = "returnedSingle" => summary.teamName = Expected(JUndef)

\* C9 witness: a label and a payload name both supplied, the label taken
C9_Witness ==
  /\ pc = "returned"
  /\ Supplied(overrideLabel)
  /\ Supplied(teamJson.team_name)
  /\ summary.teamName = overrideLabel
  /\ summary.teamName # teamJson.team_name

---------------------------------------------------------------------------
(* Properties of the bootstrap, checked under Spec *)

CategoryFields == {CATEGORIES[c].field : c \in 1..Len(CATEGORIES)}
WellFormed(json) ==
  /\ json \notin {JUndef, JNull}
  /\ \A i \in 1..Len(GivenPlayers(json)) : GivenPlayers(json)[i] # JNull

GaaCategory == CATEGORIES[Len(CATEGORIES)]
SavePctCategory == CATEGORIES[Len(CATEGORIES) - 1]

\* C10: a payload without players or without a goalie that is not flagged
\* missing is summarized without error, with both goalie averages 0 (and all
\* totals 0 when the roster is empty); once the collection is scored such a
\* team holds a rank and points in every category and is placed by the value
\* 0: ahead of every positive GAA, behind every positive save percentage.
C10_ZeroGoalieTeam ==
  /\ (WellFormed(teamJson) /\ CountedGoalies(GivenPlayers(teamJson)) = {}) =>
       /\ ~IsThrow(summary)
       /\ summary.totals.avgSavePct = Zero
       /\ summary.totals.avgGaa = Zero
       /\ GivenPlayers(teamJson) = <<>> =>
            \A f \in CategoryFields : summary.totals[f] = Zero
  /\ pc = "done" =>
       \A i \in TeamIds :
         CountedGoalies(summaries[i].players) = {} =>
           /\ summaries[i].totals.avgSavePct = Zero
           /\ summaries[i].totals.avgGaa = Zero
           /\ DOMAIN summaries[i].categoryRanks = CategoryKeys
           /\ DOMAIN summaries[i].categoryPoints = CategoryKeys
           /\ \A j \in TeamIds :
                /\ NumLess(Zero, summaries[j].totals.avgGaa)
                     => RankIn(i, GaaCategory) < RankIn(j, GaaCategory)
                /\ NumLess(Zero, summaries[j].totals.avgSavePct)
                     => RankIn(j, SavePctCategory) < RankIn(i, SavePctCategory)

\* C10 witness: a finished run with a team of no players, a team of skaters
\* and a missing goalie only, and a team with a goalie, the last one ranked
\* behind both others on GAA
C10_Witness ==
  /\ pc = "done"
  /\ \E i, j, k \in TeamIds :
       /\ summaries[i].players = <<>>
       /\ summaries[j].players # <<>>
       /\ CountedGoalies(summaries[j].players) = {}
       /\ \E g \in 1..Len(summaries[j].players) :
            summaries[j].players[g].stats_position_group = JStr("goalie")
       /\ NumLess(Zero, summaries[k].totals.avgGaa)
       /\ RankIn(k, GaaCategory) = NTeams
       /\ RankIn(i, GaaCategory) < NTeams
       /\ RankIn(j, GaaCategory) < NTeams

\* the team cards among the content of #team-cards
TeamCards == {k \in 1..Len(cards) : "teamName" \in DOMAIN cards[k]}
LoopOver == pc = "entry" /\ idx > Len(teamEntries)

\* C11: in every run of init the scorer is invoked at most once, only when the
\* loop has passed every manifest entry (each summarized or skipped), and only
\* on a non-empty collection; when the loop ends with no summary, the next
\* step is the error state, with no scoring and no team card.
C11_ScoreOnceAfterAllLoaded ==
  /\ [](/\ scoreCalls <= 1
        /\ scoreCalls = 1 =>
             /\ pc = "done"
             /\ idx = Len(teamEntries) + 1
             /\ Len(summaries) >= 1
             /\ Len(summaries) <= Len(teamEntries)
        /\ pc = "failed" => (scoreCalls = 0 /\ TeamCards = {} /\ cards = <<ErrorNote>>)
        /\ scoreCalls = 0 => TeamCards = {})
  /\ [][/\ scoreCalls' # scoreCalls =>
             (scoreCalls = 0 /\ LoopOver /\ Len(summaries) >= 1)
        /\ (LoopOver /\ Len(summaries) = 0) =>
             (pc' = "failed" /\ scoreCalls' = 0 /\ cards' = <<ErrorNote>>)]_vars

\* C11 witness: a finished run over at least two manifest entries, one of them
\* skipped, scored once and rendered with one card per loaded team
C11_Witness ==
  /\ pc = "done"
  /\ scoreCalls = 1
  /\ Len(teamEntries) >= 2
  /\ Len(summaries) >= 1
  /\ Len(summaries) < Len(teamEntries)
  /\ Cardinality(TeamCards) = Len(summaries)

====
